---------------------------- MODULE Spec2Model ----------------------------
(***************************************************************************)
(* TaskFlow AI: the pipeline orchestrator (agents/orchestrator.py), the    *)
(* input classifier and normalisation dispatch (agents/input_processor.py),*)
(* the session store (utils/memory.py) and the collaborators they call.    *)
(*                                                                         *)
(* Text is a sequence of one-character strings, so that lower-casing,      *)
(* prefix tests, substring tests and stripping are computed, not assumed.  *)
(***************************************************************************)
EXTENDS Integers, Sequences, FiniteSets, TLC

VARIABLES
    max_items,        \* SessionMemory.max_items
    interactions,     \* SessionMemory.interactions
    created_tasks,    \* SessionMemory.created_tasks
    clock,            \* datetime.utcnow(), as a logical instant
    all_interactions, \* history: every Interaction ever appended, in order
    all_tasks,        \* history: every TaskMemory ever appended, in order
    cl,               \* the classifier's last input and output
    asm,              \* a task record under assembly: the text, the answers, the task
    gemini_key,       \* whether GEMINI_API_KEY is set in the environment
    voice_mode,       \* VoiceProcessor.mode
    initialized,      \* TaskFlowOrchestrator._initialized
    vik_initialized,  \* VikunjaBAgent._initialized
    token,            \* VikunjaBClient.token
    pc,               \* where each process_input invocation stands
    loc,              \* the locals of each invocation
    returned,         \* what the step just taken gave the caller, if it returned
    calls,            \* number of process_input and initialize calls started
    n_success,        \* number of success envelopes returned
    auth_calls,       \* number of VikunjaBClient.authenticate calls
    n_raised          \* number of calls that ended in an exception

storeVars == <<max_items, interactions, created_tasks, clock,
               all_interactions, all_tasks>>
envVars == <<gemini_key, voice_mode>>
orchVars == <<initialized, vik_initialized, token, pc, loc, returned, calls,
              n_success, auth_calls, n_raised>>
vars == <<max_items, interactions, created_tasks, clock,
          all_interactions, all_tasks, cl, asm, gemini_key, voice_mode,
          initialized, vik_initialized, token, pc, loc, returned, calls,
          n_success, auth_calls, n_raised>>

-----------------------------------------------------------------------------
(* Bounds of the model. *)

\* largest MAX_MEMORY_ITEMS the pipeline is run with
MaxItemsBound == 1
\* largest max_items of the store on its own (0..StoreMaxItems)
StoreMaxItems == 3
\* number of store mutations explored in the store specification
MaxAdds == 4
\* number of words in a classified input
MaxWords == 2
\* number of process_input invocations that can be in flight at once
NumInv == 2
\* number of calls (process_input, initialize) explored
MaxCalls == 2
\* largest limit get_context is read with (0..MaxLimit)
MaxLimit == 3

-----------------------------------------------------------------------------
(* Text. *)

\* str.lower() on one character
LowerChar(c) ==
    CASE c = "F" -> "f" [] c = "S" -> "s" [] c = "U" -> "u" [] c = "B" -> "b"
      [] c = "J" -> "j" [] c = "E" -> "e" [] c = "C" -> "c" [] c = "T" -> "t"
      [] c = "W" -> "w" [] c = "A" -> "a" [] c = "V" -> "v" [] c = "M" -> "m"
      [] c = "P" -> "p" [] OTHER -> c

\* str.lower()
Lower(s) == [i \in 1..Len(s) |-> LowerChar(s[i])]

\* str.startswith(p)
StartsWith(s, p) == Len(s) >= Len(p) /\ SubSeq(s, 1, Len(p)) = p

\* p in s
Contains(s, p) ==
    \E i \in 1..(Len(s) - Len(p) + 1) : SubSeq(s, i, i + Len(p) - 1) = p

IsSpace(c) == c = " "

\* str.strip()
RECURSIVE LStrip(_)
LStrip(s) == IF s # <<>> /\ IsSpace(Head(s)) THEN LStrip(Tail(s)) ELSE s

RECURSIVE RStrip(_)
RStrip(s) ==
    IF s # <<>> /\ IsSpace(s[Len(s)]) THEN RStrip(SubSeq(s, 1, Len(s) - 1)) ELSE s

Strip(s) == RStrip(LStrip(s))

\* str.replace(p, "") : every occurrence of p removed, left to right
RECURSIVE Remove(_, _)
Remove(s, p) ==
    IF s = <<>> THEN <<>>
    ELSE IF StartsWith(s, p) THEN Remove(SubSeq(s, Len(p) + 1, Len(s)), p)
    ELSE <<Head(s)>> \o Remove(Tail(s), p)

\* the words inputs are built from
W_From    == <<"F", "r", "o", "m", ":">>
W_goto    == <<"g", "o", "t", "o", ":">>
W_Subject == <<"S", "u", "b", "j", "e", "c", "t", ":">>
W_voice   == <<"[", "v", "o", "i", "c", "e", "]">>
W_audio   == <<"A", "u", "d", "i", "o", ":">>
W_wav     == <<"a", ".", "W", "A", "V">>
W_mp3     == <<"b", ".", "m", "p", "3">>
W_hi      == <<"h", "i">>
W_sp      == <<" ">>

Words == {W_From, W_goto, W_Subject, W_voice, W_audio, W_wav, W_mp3, W_hi, W_sp}

RECURSIVE Flatten(_)
Flatten(ws) == IF ws = <<>> THEN <<>> ELSE Head(ws) \o Flatten(Tail(ws))

RECURSIVE WordSeqs(_)
WordSeqs(n) ==
    IF n = 0 THEN {<<>>}
    ELSE WordSeqs(n - 1) \cup
         {Append(ws, w) : ws \in {x \in WordSeqs(n - 1) : Len(x) = n - 1}, w \in Words}

\* every input of one to MaxWords words
Contents == {Flatten(ws) : ws \in WordSeqs(MaxWords) \ {<<>>}}

Channels == {"text", "email", "voice"}

\* channel hints a caller may pass; "sms" stands for any other value
Hints == {"text", "email", "voice", "sms"}

-----------------------------------------------------------------------------
(* Input classifier: agents/input_processor.py *)

\* the mutant: voice indicators tested before the email indicators
detect_input_type_voice_first(text) ==
    LET text_lower == Lower(text)
    IN  IF \/ Contains(text_lower, <<"[", "v", "o", "i", "c", "e", "]">>)
           \/ Contains(text_lower, <<"a", "u", "d", "i", "o", ":">>)
           \/ Contains(text_lower, <<".", "w", "a", "v">>)
           \/ Contains(text_lower, <<".", "m", "p", "3">>)
        THEN "voice"
        ELSE IF \/ StartsWith(text_lower, <<"f", "r", "o", "m", ":">>)
                \/ Contains(text_lower, <<"t", "o", ":">>)
                \/ Contains(text_lower, <<"s", "u", "b", "j", "e", "c", "t", ":">>)
        THEN "email"
        ELSE "text"

\* InputProcessorAgent.detect_input_type
detect_input_type(text) ==
    LET text_lower == Lower(text)
        email_indicators ==
            \/ StartsWith(text_lower, <<"f", "r", "o", "m", ":">>)
            \/ Contains(text_lower, <<"t", "o", ":">>)
            \/ Contains(text_lower, <<"s", "u", "b", "j", "e", "c", "t", ":">>)
        voice_indicators ==
            \/ Contains(text_lower, <<"[", "v", "o", "i", "c", "e", "]">>)
            \/ Contains(text_lower, <<"a", "u", "d", "i", "o", ":">>)
            \/ Contains(text_lower, <<".", "w", "a", "v">>)
            \/ Contains(text_lower, <<".", "m", "p", "3">>)
    IN  IF email_indicators THEN "email"
        ELSE IF voice_indicators THEN "voice"
        ELSE "text"

\* the mutant: every hint that names a channel overrides detection
resolve_channel_any_hint(text_content, input_type) ==
    IF input_type \in {"text", "email", "voice"}
    THEN input_type
    ELSE detect_input_type(text_content)

\* InputProcessorAgent.detect_and_process, the channel it dispatches on
resolve_channel(text_content, input_type) ==
    LET detected_type == detect_input_type(text_content)
    IN  IF input_type # "text" /\ input_type \in {"email", "voice"}
        THEN input_type
        ELSE detected_type

-----------------------------------------------------------------------------
(* Python values. *)

PyNone == [t |-> "none", v |-> 0]
PyInt(n) == [t |-> "int", v |-> n]

\* the empty dict
EmptyDict == [k \in {} |-> PyNone]

\* the mutant: the default replaces a value that is present
SetDefault_overwrite(d, k, v) ==
    [x \in DOMAIN d \cup {k} |-> IF x = k THEN v ELSE d[x]]

\* dict.setdefault(k, v)
SetDefault(d, k, v) ==
    IF k \in DOMAIN d THEN d
    ELSE [x \in DOMAIN d \cup {k} |-> IF x = k THEN v ELSE d[x]]

\* {**a, **b}
Merge(a, b) == [x \in DOMAIN a \cup DOMAIN b |-> IF x \in DOMAIN b THEN b[x] ELSE a[x]]

\* dict.get(k, default)
Get(d, k, default) == IF k \in DOMAIN d THEN d[k] ELSE default

\* lst[-m:]
SliceLast(lst, m) ==
    LET n == Len(lst)
        start == IF m > 0 THEN (IF n - m > 0 THEN n - m ELSE 0)
                 ELSE (IF -m < n THEN -m ELSE n)
    IN  SubSeq(lst, start + 1, n)

\* text[:n]
Prefix(text, n) == SubSeq(text, 1, IF Len(text) < n THEN Len(text) ELSE n)

-----------------------------------------------------------------------------
(* Session store: utils/memory.py *)

Interaction(type_, content, timestamp, channel) ==
    [type |-> type_, content |-> content, timestamp |-> timestamp,
     channel |-> channel, task_created |-> FALSE]

TaskMemory(task_id, title, source, created_at, priority, labels) ==
    [task_id |-> task_id, title |-> title, source |-> source,
     created_at |-> created_at, priority |-> priority, labels |-> labels]

\* the mutant: the oldest records are kept
TrimToMax_keep_oldest(lst, m) ==
    IF Len(lst) > m THEN SubSeq(lst, 1, IF m > 0 THEN m ELSE 0) ELSE lst

\* the statements of add_interaction and add_task_created after the append:
\* "if len(lst) > self.max_items: lst = lst[-self.max_items:]"
TrimToMax(lst, m) == IF Len(lst) > m THEN SliceLast(lst, m) ELSE lst

\* SessionMemory.add_interaction
add_interaction(type_, content, channel) ==
    LET interaction == Interaction(type_, content, clock, channel)
    IN  /\ interactions' = TrimToMax(Append(interactions, interaction), max_items)
        /\ all_interactions' = Append(all_interactions, interaction)
        /\ clock' = clock + 1

\* SessionMemory.add_task_created
add_task_created(task_id, title, source, priority, labels) ==
    LET task == TaskMemory(task_id, title, source, clock, priority, labels)
    IN  /\ created_tasks' = TrimToMax(Append(created_tasks, task), max_items)
        /\ all_tasks' = Append(all_tasks, task)
        /\ clock' = clock + 1

\* get_context, the line it renders for a task: the fields the f-string shows
ContextLine(task) ==
    [title |-> task.title, priority |-> task.priority, labels |-> task.labels]

\* SessionMemory.get_context: the header and the lines, in order
get_context(limit) ==
    LET recent_tasks == SliceLast(created_tasks, limit)
    IN  [header |-> "Recent tasks created:",
         lines |-> [i \in 1..Len(recent_tasks) |-> ContextLine(recent_tasks[i])]]

\* sum(t.priority for t in tasks)
RECURSIVE SumPriority(_)
SumPriority(tasks) ==
    IF tasks = <<>> THEN 0 ELSE Head(tasks).priority + SumPriority(Tail(tasks))

RECURSIVE Gcd(_, _)
Gcd(a, b) == IF b = 0 THEN a ELSE Gcd(b, a % b)

\* a / b of two integers, b > 0: the quotient as a fraction in lowest terms
PyTrueDiv(a, b) == [num |-> a \div Gcd(a, b), den |-> b \div Gcd(a, b)]

\* sources[task.source] after the counting loop
SourceCount(tasks, src) ==
    Cardinality({i \in 1..Len(tasks) : tasks[i].source = src})

\* max(sources, key=sources.get): the first key, in insertion order, whose
\* count is the largest
MaxSource(tasks) ==
    LET best == {i \in 1..Len(tasks) :
                   \A j \in 1..Len(tasks) :
                      SourceCount(tasks, tasks[i].source)
                        >= SourceCount(tasks, tasks[j].source)}
        first == CHOOSE i \in best : \A j \in best : i <= j
    IN  tasks[first].source

\* the body of get_user_patterns over a list of tasks; common_labels, a list
\* made from a set, is kept as the set
UserPatterns(tasks) ==
    IF tasks = <<>> THEN EmptyDict
    ELSE [average_priority |-> PyTrueDiv(SumPriority(tasks), Len(tasks)),
          common_labels |-> UNION {{tasks[i].labels[k] : k \in 1..Len(tasks[i].labels)} :
                                     i \in 1..Len(tasks)},
          preferred_source |-> MaxSource(tasks),
          total_tasks |-> Len(tasks)]

\* the mutant: the patterns of every task ever added, evicted ones included
get_user_patterns_history == UserPatterns(all_tasks)

\* SessionMemory.get_user_patterns
get_user_patterns == UserPatterns(created_tasks)

\* SessionMemory.to_dict
to_dict ==
    [interactions |-> interactions, created_tasks |-> created_tasks,
     patterns |-> get_user_patterns]

-----------------------------------------------------------------------------
(* Normalisation: tools/email_tools.py, tools/voice_tools.py and the      *)
(* process_* methods of agents/input_processor.py.  The inputs hold no    *)
(* line break, so an input is a single line.                               *)

C_From    == <<"F", "r", "o", "m", ":">>
C_To      == <<"T", "o", ":">>
C_Subject == <<"S", "u", "b", "j", "e", "c", "t", ":">>

\* EmailProcessor.parse_email
parse_email(email_text) ==
    LET line == email_text
        blank == ~StartsWith(line, C_From) /\ ~StartsWith(line, C_To)
                 /\ ~StartsWith(line, C_Subject) /\ Strip(line) = <<>>
    IN  [from    |-> IF StartsWith(line, C_From)
                     THEN Strip(Remove(line, C_From)) ELSE <<>>,
         to      |-> IF ~StartsWith(line, C_From) /\ StartsWith(line, C_To)
                     THEN Strip(Remove(line, C_To)) ELSE <<>>,
         subject |-> IF ~StartsWith(line, C_From) /\ ~StartsWith(line, C_To)
                        /\ StartsWith(line, C_Subject)
                     THEN Strip(Remove(line, C_Subject)) ELSE <<>>,
         body    |-> IF blank THEN <<>> ELSE Strip(line)]

\* a line the signature patterns ^\s*--.*, ^\s*Best,.*, ^\s*Thanks,.* match
SignatureLine(text) ==
    \/ StartsWith(LStrip(text), <<"-", "-">>)
    \/ StartsWith(LStrip(text), <<"B", "e", "s", "t", ",">>)
    \/ StartsWith(LStrip(text), <<"T", "h", "a", "n", "k", "s", ",">>)

\* EmailProcessor.extract_actionable_text
extract_actionable_text(email_data) ==
    LET text == email_data.subject \o <<".", " ">> \o email_data.body
    IN  Strip(IF SignatureLine(text) THEN <<>> ELSE text)

\* VoiceProcessor._load_mock_data, one of its entries
MockName == <<"t", "e", "s", "t", "_", "v", "o", "i", "c", "e", "_", "1", ".", "w", "a", "v">>
MockText == <<"Fix the login bug by Friday, it's critical">>
GenericTranscript == <<"Create new task with urgency">>
RealTranscript == <<"transcript">>

\* VoiceProcessor._transcribe_mock
transcribe_mock(file_path) ==
    IF file_path = MockName THEN MockText ELSE GenericTranscript

\* what the transcription backend does with a file in "real" mode
VoiceOutcomes == {"ok", "missing"}

\* VoiceProcessor.transcribe: [raised, value]
transcribe(file_path, vo) ==
    IF voice_mode = "mock"
    THEN [raised |-> FALSE, value |-> transcribe_mock(file_path)]
    ELSE IF vo = "missing"
    THEN [raised |-> TRUE, value |-> <<"Audio file not found">>]
    ELSE [raised |-> FALSE, value |-> RealTranscript]

\* InputProcessorAgent.detect_and_process: [raised, text, channel]
detect_and_process(input_data, input_type, vo) ==
    LET text_content == input_data
        detected_type == resolve_channel(text_content, input_type)
    IN  IF detected_type = "email"
        THEN [raised |-> FALSE,
              text |-> extract_actionable_text(parse_email(text_content)),
              channel |-> "email"]
        ELSE IF detected_type = "voice"
        THEN LET t == transcribe(text_content, vo)
             IN  [raised |-> t.raised, text |-> t.value, channel |-> "voice"]
        ELSE [raised |-> FALSE, text |-> Strip(text_content), channel |-> "text"]

-----------------------------------------------------------------------------
(* LLM collaborators: tools/gemini_tools.py, agents/parser_agent.py,      *)
(* agents/enricher_agent.py.  What the model answers is an input.          *)

\* the orchestrator's text[:50]
TitleLen == 50

\* the record extract_task_structure substitutes when the call fails
FallbackTask(text) ==
    [title |-> Prefix(text, TitleLen), description |-> text, priority |-> 1,
     due_date |-> "null", labels |-> <<"inbox">>]

\* "fail": no key, exception, empty response, invalid JSON, failed assertion
ExtractOutcomes == {"fail", "title_only"}

\* the JSON objects the model answers the extraction prompt with
ExtractAnswer(xo) ==
    CASE xo = "title_only" -> [title |-> <<"Fix login bug">>]
      [] xo = "full" -> [title |-> <<"Fix login bug">>,
                         description |-> <<"Auth page broken">>,
                         priority |-> 2, due_date |-> "2025-12-05",
                         labels |-> <<"bug", "auth">>]
      [] xo = "title_labels" -> [title |-> <<"Fix login bug">>,
                                 labels |-> <<"bug">>]
      [] xo = "no_title" -> [description |-> <<"Auth page broken">>,
                             priority |-> 2]
      [] xo = "extra" -> [title |-> <<"Fix login bug">>, project |-> "web"]
      [] OTHER -> EmptyDict

\* every answer to the extraction prompt that is explored
ExtractAnswers == {"fail", "title_only", "full", "title_labels", "no_title", "extra"}

\* GeminiLLMService.extract_task_structure: the answer when it has a title
\* (assert "title" in task_data), the fallback otherwise
gemini_extract_task_structure(text, xo) ==
    IF ~gemini_key \/ xo = "fail" \/ "title" \notin DOMAIN ExtractAnswer(xo)
    THEN FallbackTask(text)
    ELSE ExtractAnswer(xo)

\* ParserAgent.extract_task_structure
extract_task_structure(text, xo) ==
    LET t0 == gemini_extract_task_structure(text, xo)
        t1 == SetDefault(t0, "title", Prefix(text, TitleLen))
        t2 == SetDefault(t1, "description", text)
        t3 == SetDefault(t2, "priority", 1)
        t4 == SetDefault(t3, "due_date", "null")
    IN  SetDefault(t4, "labels", <<>>)

\* "fail": no key, exception, empty response, invalid JSON, a non-dict answer
EnrichOutcomes == {"fail", "partial"}

\* the JSON objects the model answers the enrichment prompt with
EnrichAnswer(eo) ==
    CASE eo = "partial" -> [priority |-> 3, labels |-> <<"urgent">>]
      [] eo = "retitle" -> [title |-> <<"Fix login">>, due_date |-> "2025-12-05"]
      [] eo = "full" -> [title |-> <<"Fix login">>,
                         description |-> <<"Login fails">>,
                         priority |-> 3, due_date |-> "2025-12-05",
                         labels |-> <<"urgent">>]
      [] eo = "extra" -> [note |-> "blocker"]
      [] OTHER -> EmptyDict

\* every answer to the enrichment prompt that is explored
EnrichAnswers == {"fail", "partial", "retitle", "full", "extra", "empty"}

\* the mutant: a failed enrichment loses the task
gemini_enrich_task_drop(task, eo) ==
    IF ~gemini_key \/ eo = "fail" THEN EmptyDict
    ELSE Merge(task, EnrichAnswer(eo))

\* GeminiLLMService.enrich_task
gemini_enrich_task(task, eo) ==
    IF ~gemini_key \/ eo = "fail" THEN task
    ELSE Merge(task, EnrichAnswer(eo))

\* the limit EnricherAgent.enrich_task reads the context with
ContextLimit == 5

\* EnricherAgent.enrich_task: the context and the patterns go into the
\* prompt; what the model answers to it is eo
enrich_task(task, eo) ==
    LET context == get_context(ContextLimit)
        patterns == get_user_patterns
    IN  gemini_enrich_task(task, eo)

-----------------------------------------------------------------------------
(* Task tracker: tools/vikunja_api.py, agents/vikunja_agent.py *)

\* "ok_no_token": status 200 whose body carries no token
AuthOutcomes == {"ok", "ok_no_token", "fail"}

\* VikunjaBClient.authenticate: the token afterwards
TokenAfter(auth) ==
    IF auth = "ok" THEN "tok" ELSE IF auth = "ok_no_token" THEN "none" ELSE token

\* VikunjaBAgent.initialize: what it returns and leaves behind
vik_initialize(conn_ok, auth) ==
    IF vik_initialized
    THEN [ret |-> TRUE, vik |-> TRUE, token |-> token, auths |-> 0]
    ELSE IF ~conn_ok
    THEN [ret |-> FALSE, vik |-> FALSE, token |-> token, auths |-> 0]
    ELSE IF auth = "fail"
    THEN [ret |-> FALSE, vik |-> FALSE, token |-> token, auths |-> 1]
    ELSE [ret |-> TRUE, vik |-> TRUE, token |-> TokenAfter(auth), auths |-> 1]

\* the mutant: the flag is set before the key is verified
orch_initialize_flag_first(conn_ok, auth) ==
    LET v == vik_initialize(conn_ok, auth)
    IN  [raised |-> ~gemini_key, initialized |-> TRUE,
         vik |-> v.vik, token |-> v.token, auths |-> v.auths]

\* TaskFlowOrchestrator.initialize: whether it raises and what it leaves behind
orch_initialize(conn_ok, auth) ==
    LET v == vik_initialize(conn_ok, auth)
    IN  [raised |-> ~gemini_key,
         initialized |-> IF gemini_key THEN TRUE ELSE initialized,
         vik |-> v.vik, token |-> v.token, auths |-> v.auths]

\* what the backend answers to the PUT of VikunjaBClient.create_task
PutOutcomes == {"id", "no_id", "empty", "error"}

\* the JSON body VikunjaBClient.create_task returns
CreatedBody(po) ==
    IF po = "id" THEN [id |-> PyInt(42), project_id |-> PyInt(1)]
    ELSE IF po = "no_id" THEN [project_id |-> PyInt(1)]
    ELSE EmptyDict

-----------------------------------------------------------------------------
(* Pipeline orchestrator: agents/orchestrator.py *)

Inv == 1..NumInv

\* the inputs the pipeline is run on
PipelineInputs ==
    {<<W_sp \o W_hi \o W_sp, "text">>,   \* plain text, hint text
     <<W_From \o W_hi, "text">>,         \* looks like an email, hint text
     <<W_wav, "sms">>,                   \* names an audio file, hint no channel
     <<W_hi, "voice">>}                  \* plain text, hint voice

\* the locals of an invocation, with what it has done so far: the stages it
\* has entered, the call number it arrived with, the number of records the
\* store had been given before it, and its worker thread's logins and PUTs
NoLoc == [raw |-> <<>>, hint |-> "text", channel |-> "none", source_type |-> "none",
          task |-> EmptyDict, created |-> EmptyDict, error |-> "", stages |-> <<>>,
          tasks_before |-> 0, inter_before |-> 0, appended |-> 0,
          arrival |-> 0, auths |-> 0, puts |-> 0, xo |-> "none", eo |-> "none"]

NoReturn == [op |-> "none", inv |-> 0, raw |-> <<>>, hint |-> "text",
             channel |-> "none", kind |-> "none", env |-> EmptyDict,
             stages |-> <<>>, created |-> EmptyDict, appended |-> 0,
             auths |-> 0, puts |-> 0, xo |-> "none", eo |-> "none",
             task |-> EmptyDict]

\* the mutant: enrichment before extraction
PipelineStages_enrich_first ==
    <<"normalize", "record", "enrich", "extract", "create">>

\* process_input, the statements of its try block in program order
PipelineStages ==
    <<"normalize", "record", "extract", "enrich", "create">>

\* the mutant: the success envelope reports the caller's hint
SuccessEnvelope_hint(created_task, enriched_task, detected_type, input_type) ==
    [success |-> TRUE,
     task_id |-> IF created_task # EmptyDict
                 THEN Get(created_task, "id", PyNone) ELSE PyInt(-1),
     title |-> Get(enriched_task, "title", PyNone),
     source |-> input_type,
     priority |-> Get(enriched_task, "priority", PyNone),
     labels |-> Get(enriched_task, "labels", <<>>)]

\* process_input, the result it builds after create_task returns
SuccessEnvelope(created_task, enriched_task, detected_type, input_type) ==
    [success |-> TRUE,
     task_id |-> IF created_task # EmptyDict
                 THEN Get(created_task, "id", PyNone) ELSE PyInt(-1),
     title |-> Get(enriched_task, "title", PyNone),
     source |-> detected_type,
     priority |-> Get(enriched_task, "priority", PyNone),
     labels |-> Get(enriched_task, "labels", <<>>)]

\* the mutant: the failure envelope reports the resolved channel when there is one
FailureEnvelope_resolved(error, input_type, detected_type) ==
    [success |-> FALSE, error |-> error,
     source |-> IF detected_type = "none" THEN input_type ELSE detected_type]

\* process_input, the result its except clause builds
FailureEnvelope(error, input_type, detected_type) ==
    [success |-> FALSE, error |-> error, source |-> input_type]

\* process_input, the source_type it hands to create_task
CreateSourceType(detected_type, input_type) == detected_type

\* the mutant: no Interaction is recorded
RecordInteraction_dropped(input_type, normalized_text, detected_type) ==
    UNCHANGED <<interactions, all_interactions, clock>>

\* the mutant: an input that resolves to text is not recorded
RecordInteraction_skip_text(input_type, normalized_text, detected_type) ==
    IF detected_type = "text"
    THEN UNCHANGED <<interactions, all_interactions, clock>>
    ELSE add_interaction(input_type, normalized_text, detected_type)

\* the mutant: the Interaction is recorded twice
RecordInteraction_twice(input_type, normalized_text, detected_type) ==
    LET interaction == Interaction(input_type, normalized_text, clock, detected_type)
    IN  /\ interactions' = TrimToMax(Append(Append(interactions, interaction),
                                            interaction), max_items)
        /\ all_interactions' = Append(Append(all_interactions, interaction),
                                      interaction)
        /\ clock' = clock + 1

\* the mutant: type and channel swapped
RecordInteraction_swapped(input_type, normalized_text, detected_type) ==
    add_interaction(detected_type, normalized_text, input_type)

\* process_input, the Interaction it records
RecordInteraction(input_type, normalized_text, detected_type) ==
    add_interaction(input_type, normalized_text, detected_type)

\* TaskFlowOrchestrator.initialize(), called by the program (main.py)
CallInitialize ==
    /\ calls < MaxCalls
    /\ calls' = calls + 1
    /\ \E conn_ok \in BOOLEAN, auth \in AuthOutcomes :
         LET r == orch_initialize(conn_ok, auth)
         IN  /\ initialized' = r.initialized
             /\ vik_initialized' = r.vik
             /\ token' = r.token
             /\ auth_calls' = auth_calls + r.auths
             /\ n_raised' = IF r.raised THEN n_raised + 1 ELSE n_raised
             /\ returned' = [NoReturn EXCEPT
                    !.op = "initialize",
                    !.kind = IF r.raised THEN "raised" ELSE "value",
                    !.env = IF r.raised
                            THEN [error |-> "GEMINI_API_KEY not set"]
                            ELSE [ok |-> TRUE]]
    /\ UNCHANGED <<storeVars, envVars, cl, asm, pc, loc, n_success>>

\* process_input from its call to the first point where it gives up control:
\* lazy initialize, detect_and_process, add_interaction, extract, enrich, and
\* the hand-over of create_task to a worker thread (asyncio.to_thread).
\* The inputs and the collaborators' answers are drawn from the given sets.
ProcessInputWith(p, inputs, xos, eos) ==
    /\ pc[p] = "idle"
    /\ calls < MaxCalls
    /\ calls' = calls + 1
    /\ \E input \in inputs,
          conn_ok \in (IF initialized THEN {TRUE} ELSE BOOLEAN),
          auth \in (IF initialized THEN {"ok"} ELSE AuthOutcomes),
          vo \in (IF voice_mode = "real" THEN VoiceOutcomes ELSE {"ok"}),
          xo \in xos, eo \in eos :
         LET input_data == input[1]
             input_type == input[2]
             ini == IF initialized
                    THEN [raised |-> FALSE, initialized |-> TRUE,
                          vik |-> vik_initialized, token |-> token, auths |-> 0]
                    ELSE orch_initialize(conn_ok, auth)
             dp == detect_and_process(input_data, input_type, vo)
             task == extract_task_structure(dp.text, xo)
             enriched_task == enrich_task(task, eo)
         IN  /\ initialized' = ini.initialized
             /\ vik_initialized' = ini.vik
             /\ token' = ini.token
             /\ auth_calls' = auth_calls + ini.auths
             /\ n_raised' = IF ini.raised THEN n_raised + 1 ELSE n_raised
             /\ IF ini.raised
                THEN /\ returned' = [NoReturn EXCEPT
                            !.op = "process_input", !.inv = p,
                            !.raw = input_data, !.hint = input_type,
                            !.kind = "raised",
                            !.env = [error |-> "GEMINI_API_KEY not set"]]
                     /\ UNCHANGED <<storeVars, pc, loc, n_success>>
                ELSE IF dp.raised
                THEN /\ returned' = [NoReturn EXCEPT
                            !.op = "process_input", !.inv = p,
                            !.raw = input_data, !.hint = input_type,
                            !.kind = "value",
                            !.stages = SubSeq(PipelineStages, 1, 1),
                            !.env = FailureEnvelope("Audio file not found",
                                                    input_type, "none")]
                     /\ UNCHANGED <<storeVars, pc, loc, n_success>>
                ELSE /\ RecordInteraction(input_type, dp.text, dp.channel)
                     /\ loc' = [loc EXCEPT ![p] =
                            [raw |-> input_data, hint |-> input_type,
                             channel |-> dp.channel,
                             source_type |-> CreateSourceType(dp.channel, input_type),
                             task |-> enriched_task, created |-> EmptyDict,
                             error |-> "",
                             stages |-> PipelineStages,
                             tasks_before |-> Len(all_tasks),
                             inter_before |-> Len(all_interactions),
                             appended |-> Len(all_interactions')
                                            - Len(all_interactions),
                             arrival |-> calls + 1,
                             auths |-> 0, puts |-> 0, xo |-> xo, eo |-> eo]]
                     /\ pc' = [pc EXCEPT ![p] = "to_thread"]
                     /\ returned' = NoReturn
                     /\ UNCHANGED <<max_items, created_tasks, all_tasks, n_success>>
    /\ UNCHANGED <<envVars, cl, asm>>

\* process_input called by a program that awaits each call (main.py, demo.py)
ProcessInput(p) ==
    ProcessInputWith(p, PipelineInputs, ExtractOutcomes, EnrichOutcomes)

\* VikunjaBClient.create_task in its worker thread: "if not self.token"
ThreadCheckToken(p) ==
    /\ pc[p] = "to_thread"
    /\ pc' = [pc EXCEPT ![p] = IF token = "none" THEN "t_auth" ELSE "t_put"]
    /\ returned' = NoReturn
    /\ UNCHANGED <<storeVars, envVars, cl, asm, initialized, vik_initialized, token,
                   loc, calls, n_success, auth_calls, n_raised>>

\* VikunjaBClient.create_task in its worker thread: "self.authenticate()"
ThreadAuthenticate(p) ==
    /\ pc[p] = "t_auth"
    /\ auth_calls' = auth_calls + 1
    /\ \E auth \in AuthOutcomes :
         /\ token' = TokenAfter(auth)
         /\ IF auth = "fail"
            THEN /\ pc' = [pc EXCEPT ![p] = "t_raised"]
                 /\ loc' = [loc EXCEPT ![p].error = "Not authenticated with Vikunja",
                                       ![p].auths = @ + 1]
            ELSE /\ pc' = [pc EXCEPT ![p] = "t_put"]
                 /\ loc' = [loc EXCEPT ![p].auths = @ + 1]
    /\ returned' = NoReturn
    /\ UNCHANGED <<storeVars, envVars, cl, asm, initialized, vik_initialized,
                   calls, n_success, n_raised>>

\* the mutant: a failed PUT is sent once more
AfterPutError_retry(puts) == IF puts < 2 THEN "t_put" ELSE "t_raised"

\* VikunjaBClient.create_task, where a failed PUT leaves the thread: it raises
AfterPutError(puts) == "t_raised"

\* VikunjaBClient.create_task in its worker thread: the PUT and its answer,
\* the answer drawn from the given set
ThreadPutWith(p, pos) ==
    /\ pc[p] = "t_put"
    /\ \E po \in pos :
         IF po = "error"
         THEN /\ pc' = [pc EXCEPT ![p] = AfterPutError(loc[p].puts + 1)]
              /\ loc' = [loc EXCEPT ![p].error = "Vikunja error",
                                    ![p].puts = @ + 1]
         ELSE /\ pc' = [pc EXCEPT ![p] = "t_done"]
              /\ loc' = [loc EXCEPT ![p].created = CreatedBody(po),
                                    ![p].puts = @ + 1]
    /\ returned' = NoReturn
    /\ UNCHANGED <<storeVars, envVars, cl, asm, initialized, vik_initialized, token,
                   calls, n_success, auth_calls, n_raised>>

ThreadPut(p) == ThreadPutWith(p, PutOutcomes)

\* process_input resumed with the thread's result: the envelope it returns
Resume(p) ==
    /\ pc[p] \in {"t_done", "t_raised"}
    /\ returned' = [op |-> "process_input", inv |-> p, raw |-> loc[p].raw,
                    hint |-> loc[p].hint, channel |-> loc[p].channel,
                    kind |-> "value",
                    env |-> IF pc[p] = "t_done"
                            THEN SuccessEnvelope(loc[p].created, loc[p].task,
                                                 loc[p].channel, loc[p].hint)
                            ELSE FailureEnvelope(loc[p].error, loc[p].hint,
                                                 loc[p].channel),
                    stages |-> loc[p].stages, created |-> loc[p].created,
                    appended |-> loc[p].appended,
                    auths |-> loc[p].auths, puts |-> loc[p].puts,
                    xo |-> loc[p].xo, eo |-> loc[p].eo, task |-> loc[p].task]
    /\ n_success' = IF pc[p] = "t_done" THEN n_success + 1 ELSE n_success
    /\ pc' = [pc EXCEPT ![p] = "idle"]
    /\ loc' = [loc EXCEPT ![p] = NoLoc]
    /\ UNCHANGED <<storeVars, envVars, cl, asm, initialized, vik_initialized, token,
                   calls, auth_calls, n_raised>>

\* the environment between two calls: GEMINI_API_KEY, which initialize reads
\* with os.getenv on every call, is set by the operator
SetGeminiKey ==
    /\ ~gemini_key
    /\ \A p \in Inv : pc[p] = "idle"
    /\ gemini_key' = TRUE
    /\ returned' = NoReturn
    /\ UNCHANGED <<storeVars, voice_mode, cl, asm, initialized, vik_initialized,
                   token, pc, loc, calls, n_success, auth_calls, n_raised>>

\* no task record is under assembly
NoAsm == [text |-> <<>>, xo |-> "none", eo |-> "none", stage |-> "none",
          task |-> EmptyDict, enriched |-> EmptyDict]

\* the state a freshly constructed orchestrator is in
OrchInit ==
    /\ interactions = <<>>
    /\ created_tasks = <<>>
    /\ clock = 0
    /\ all_interactions = <<>>
    /\ all_tasks = <<>>
    /\ cl = [content |-> <<>>, hint |-> "text", detected |-> "none",
             resolved |-> "none"]
    /\ asm = NoAsm
    /\ initialized = FALSE
    /\ vik_initialized = FALSE
    /\ token = "none"
    /\ pc = [p \in Inv |-> "idle"]
    /\ loc = [p \in Inv |-> NoLoc]
    /\ returned = NoReturn
    /\ calls = 0
    /\ n_success = 0
    /\ auth_calls = 0
    /\ n_raised = 0

Init ==
    /\ max_items \in {0, MaxItemsBound}
    /\ gemini_key \in BOOLEAN
    /\ voice_mode \in {"mock", "real"}
    /\ OrchInit

\* initialize() called by a program that awaits each call
SeqInitialize == pc[1] = "idle" /\ CallInitialize

\* a program that awaits each call before the next: one invocation at a time
Next ==
    \/ SeqInitialize
    \/ SetGeminiKey
    \/ ProcessInput(1)
    \/ ThreadCheckToken(1)
    \/ ThreadAuthenticate(1)
    \/ ThreadPut(1)
    \/ Resume(1)

Spec == Init /\ [][Next]_vars

-----------------------------------------------------------------------------
(* Callers that do not wait for one another: up to NumInv invocations in   *)
(* flight, interleaved at the points where a coroutine gives up control    *)
(* and between the steps of the worker threads.                            *)

ConcProcessInput(p) ==
    ProcessInputWith(p, {<<W_hi, "text">>, <<W_hi, "sms">>}, {"fail"}, {"fail"})

ConcThreadPut(p) == ThreadPutWith(p, {"id", "error"})

\* initialize() awaited by the program before it starts its invocations
ConcInitialize ==
    /\ ~initialized
    /\ \A p \in Inv : pc[p] = "idle"
    /\ CallInitialize

\* the configuration is in order: what is explored is the interleaving
ConcInit ==
    /\ max_items \in {0, MaxItemsBound}
    /\ gemini_key = TRUE
    /\ voice_mode = "mock"
    /\ OrchInit

ConcNext ==
    \/ ConcInitialize
    \/ \E p \in Inv : ConcProcessInput(p)
    \/ \E p \in Inv : ThreadCheckToken(p)
    \/ \E p \in Inv : ThreadAuthenticate(p)
    \/ \E p \in Inv : ConcThreadPut(p)
    \/ \E p \in Inv : Resume(p)

ConcSpec == ConcInit /\ [][ConcNext]_vars

-----------------------------------------------------------------------------
(* The session store on its own: any sequence of its two mutations. *)

StoreTypes == {"text", "email"}

\* [source, priority, labels] of the tasks added
StoreTaskInputs ==
    {<<"text", 1, <<>>>>, <<"email", 2, <<"bug">>>>,
     <<"text", 3, <<"bug", "ui">>>>}

StoreAddInteraction ==
    /\ Len(all_interactions) + Len(all_tasks) < MaxAdds
    /\ \E type_ \in StoreTypes : add_interaction(type_, W_hi, "text")
    /\ returned' = NoReturn
    /\ UNCHANGED <<max_items, created_tasks, all_tasks, envVars, cl, asm, initialized,
                   vik_initialized, token, pc, loc, calls, n_success,
                   auth_calls, n_raised>>

StoreAddTask ==
    /\ Len(all_interactions) + Len(all_tasks) < MaxAdds
    /\ \E t \in StoreTaskInputs :
         add_task_created(PyInt(42), W_hi, t[1], t[2], t[3])
    /\ returned' = NoReturn
    /\ UNCHANGED <<max_items, interactions, all_interactions, envVars, cl, asm,
                   initialized, vik_initialized, token, pc, loc, calls,
                   n_success, auth_calls, n_raised>>

\* a read of the derived patterns
StoreGetUserPatterns ==
    /\ returned = NoReturn
    /\ returned' = [NoReturn EXCEPT !.op = "get_user_patterns",
                                    !.kind = "value",
                                    !.env = get_user_patterns]
    /\ UNCHANGED <<storeVars, envVars, cl, asm, initialized, vik_initialized, token,
                   pc, loc, calls, n_success, auth_calls, n_raised>>

StoreInit ==
    /\ max_items \in 0..StoreMaxItems
    /\ gemini_key = TRUE
    /\ voice_mode = "mock"
    /\ OrchInit

\* a read of the context digest
StoreGetContext ==
    /\ returned = NoReturn
    /\ \E limit \in 0..MaxLimit :
         /\ returned' = [NoReturn EXCEPT !.op = "get_context", !.kind = "value",
                            !.env = [limit |-> limit, context |-> get_context(limit)]]
    /\ UNCHANGED <<storeVars, envVars, cl, asm, initialized, vik_initialized, token,
                   pc, loc, calls, n_success, auth_calls, n_raised>>

\* a read of the serialized store
StoreToDict ==
    /\ returned = NoReturn
    /\ returned' = [NoReturn EXCEPT !.op = "to_dict", !.kind = "value",
                                    !.env = to_dict]
    /\ UNCHANGED <<storeVars, envVars, cl, asm, initialized, vik_initialized, token,
                   pc, loc, calls, n_success, auth_calls, n_raised>>

\* time passes (the store holds ttl_seconds and no operation reads it); the
\* clock is advanced once in a run
StoreTick ==
    /\ clock = Len(all_interactions) + Len(all_tasks)
    /\ clock' = clock + 1
    /\ returned' = NoReturn
    /\ UNCHANGED <<max_items, interactions, created_tasks, all_interactions,
                   all_tasks, envVars, cl, asm, initialized, vik_initialized, token,
                   pc, loc, calls, n_success, auth_calls, n_raised>>

StoreNext ==
    \/ StoreAddInteraction
    \/ StoreAddTask
    \/ StoreGetUserPatterns
    \/ StoreGetContext
    \/ StoreToDict
    \/ StoreTick

StoreSpec == StoreInit /\ [][StoreNext]_vars

-----------------------------------------------------------------------------
(* The classifier on its own: detect_and_process applied to any input. *)

NoDetection == "none"

Classify ==
    /\ cl.detected = NoDetection
    /\ cl' = [cl EXCEPT
            !.detected = detect_input_type(cl.content),
            !.resolved = detect_and_process(cl.content, cl.hint, "ok").channel]
    /\ UNCHANGED <<storeVars, envVars, orchVars, asm>>

ClassifyInit ==
    /\ max_items = MaxItemsBound
    /\ gemini_key = TRUE
    /\ voice_mode = "mock"
    /\ interactions = <<>>
    /\ created_tasks = <<>>
    /\ clock = 0
    /\ all_interactions = <<>>
    /\ all_tasks = <<>>
    /\ cl \in {[content |-> c, hint |-> h, detected |-> NoDetection,
                resolved |-> NoDetection] : c \in Contents, h \in Hints}
    /\ asm = NoAsm
    /\ initialized = FALSE
    /\ vik_initialized = FALSE
    /\ token = "none"
    /\ pc = [p \in Inv |-> "idle"]
    /\ loc = [p \in Inv |-> NoLoc]
    /\ returned = NoReturn
    /\ calls = 0
    /\ n_success = 0
    /\ auth_calls = 0
    /\ n_raised = 0

ClassifyNext == Classify

ClassifySpec == ClassifyInit /\ [][ClassifyNext]_vars

-----------------------------------------------------------------------------
(* Task record assembly on its own: extraction, then enrichment, of any   *)
(* text under any answer of the model.                                     *)

\* a text longer than the title
LongText == [i \in 1..(TitleLen + 1) |-> IF i % 2 = 1 THEN "a" ELSE "b"]

AssembleTexts == {<<>>, W_hi, LongText}

\* ParserAgent.extract_task_structure applied to the text
AssembleExtract ==
    /\ asm.stage = "input"
    /\ asm' = [asm EXCEPT !.stage = "extracted",
                          !.task = extract_task_structure(asm.text, asm.xo)]
    /\ UNCHANGED <<storeVars, envVars, orchVars, cl>>

\* EnricherAgent.enrich_task applied to the extracted task
AssembleEnrich ==
    /\ asm.stage = "extracted"
    /\ asm' = [asm EXCEPT !.stage = "enriched",
                          !.enriched = enrich_task(asm.task, asm.eo)]
    /\ UNCHANGED <<storeVars, envVars, orchVars, cl>>

AssembleInit ==
    /\ max_items = MaxItemsBound
    /\ gemini_key \in BOOLEAN
    /\ voice_mode = "mock"
    /\ interactions = <<>>
    /\ created_tasks = <<>>
    /\ clock = 0
    /\ all_interactions = <<>>
    /\ all_tasks = <<>>
    /\ cl = [content |-> <<>>, hint |-> "text", detected |-> "none",
             resolved |-> "none"]
    /\ asm \in {[NoAsm EXCEPT !.text = t, !.xo = xo, !.eo = eo, !.stage = "input"] :
                  t \in AssembleTexts, xo \in ExtractAnswers, eo \in EnrichAnswers}
    /\ initialized = FALSE
    /\ vik_initialized = FALSE
    /\ token = "none"
    /\ pc = [p \in Inv |-> "idle"]
    /\ loc = [p \in Inv |-> NoLoc]
    /\ returned = NoReturn
    /\ calls = 0
    /\ n_success = 0
    /\ auth_calls = 0
    /\ n_raised = 0

AssembleNext == AssembleExtract \/ AssembleEnrich

AssembleSpec == AssembleInit /\ [][AssembleNext]_vars

-----------------------------------------------------------------------------
(* Properties. *)

Min(a, b) == IF a < b THEN a ELSE b

Last(s) == s[Len(s)]

\* the newest m records of a history, oldest first
Newest(history, m) == SubSeq(history, Len(history) - m + 1, Len(history))

InFlight == {"to_thread", "t_auth", "t_put", "t_done", "t_raised"}

\* the last step returned an envelope from process_input
ReturnedEnvelope == returned.op = "process_input" /\ returned.kind = "value"

ReturnedSuccess == ReturnedEnvelope /\ returned.env.success

ReturnedFailure == ReturnedEnvelope /\ ~returned.env.success

\* a success boolean plus either the success fields or an error string
WellFormedEnvelope(e) ==
    /\ "success" \in DOMAIN e
    /\ IF e.success
       THEN DOMAIN e = {"success", "task_id", "title", "source", "priority", "labels"}
       ELSE DOMAIN e = {"success", "error", "source"}

\* C1: after every mutation of the store, under every configured max_items
\* (0 included), neither collection holds more than max_items records.
C1_StoreBound ==
    /\ Len(interactions) <= max_items
    /\ Len(created_tasks) <= max_items

\* C2: once more than max_items records have been added, the store holds
\* exactly the max_items most recently added ones, oldest first; the same
\* for created_tasks.
C2_OldestFirstEviction ==
    /\ Len(all_interactions) > max_items
         => interactions = Newest(all_interactions, max_items)
    /\ Len(all_tasks) > max_items
         => created_tasks = Newest(all_tasks, max_items)

\* C3: every process_input call returns a well-formed envelope and raises
\* nothing, whatever the input, the hint, the initialization state and the
\* collaborators' failures.
C3_AlwaysEnvelope ==
    returned.op = "process_input"
        => returned.kind = "value" /\ WellFormedEnvelope(returned.env)

\* C4: every success envelope comes with one TaskMemory appended to
\* created_tasks: after n successes created_tasks holds min(n, max_items)
\* records and n records have been appended in all.
C4_SuccessRecorded ==
    /\ Len(all_tasks) = n_success
    /\ Len(created_tasks) = Min(n_success, max_items)

\* C5: when the task-creation collaborator raises, process_input returns
\* {success: false, error: the message, source: the original hint}, the
\* store holds the Interaction this invocation recorded, and no TaskMemory
\* was added by the invocation.
C5_CreationFailure ==
    [][\A p \in Inv :
         (pc[p] = "t_raised" /\ pc'[p] = "idle")
           => /\ returned'.op = "process_input" /\ returned'.kind = "value"
              /\ returned'.env = [success |-> FALSE, error |-> loc[p].error,
                                  source |-> loc[p].hint]
              /\ loc[p].error \in {"Not authenticated with Vikunja", "Vikunja error"}
              /\ interactions' # <<>>
              /\ Last(interactions').type = loc[p].hint
              /\ Last(interactions').channel = loc[p].channel
              /\ Last(interactions') = Last(all_interactions')
              /\ created_tasks' = created_tasks
              /\ Len(all_tasks') = loc[p].tasks_before]_vars

C5_Witness ==
    /\ ReturnedFailure
    /\ returned.env.error = "Vikunja error"
    /\ returned.channel = "email"
    /\ Last(interactions).channel = "email"

\* C6: every failure envelope reports the caller's original hint as its
\* source, never the resolved channel, also when resolution had completed
\* with another channel.
C6_FailureSourceIsHint ==
    ReturnedFailure
        => /\ returned.env.source = returned.hint
           /\ DOMAIN returned.env = {"success", "error", "source"}

C6_Witness ==
    /\ ReturnedFailure
    /\ returned.channel \in Channels
    /\ returned.channel # returned.hint
    /\ returned.env.source = "text"

\* C7: the task-creation collaborator is called with the resolved channel
\* and the success envelope reports the resolved channel as its source;
\* neither uses the caller's hint when the two differ.
C7_SuccessUsesResolvedChannel ==
    /\ \A p \in Inv :
         pc[p] \in InFlight
           => /\ loc[p].source_type = loc[p].channel
              /\ loc[p].source_type = Last(all_interactions).channel
    /\ ReturnedSuccess => returned.env.source = returned.channel

C7_Witness ==
    /\ ReturnedSuccess
    /\ returned.hint = "text"
    /\ returned.env.source = "email"

\* C8: the resolved channel is the hint when the hint is exactly "email" or
\* "voice", and the content-detected channel for every other hint; a hint
\* of "text" never turns email- or voice-looking content into text.
C8_HintOverride ==
    cl.detected # NoDetection
        => /\ cl.hint \in {"email", "voice"} => cl.resolved = cl.hint
           /\ cl.hint \notin {"email", "voice"} => cl.resolved = cl.detected
           /\ (cl.hint = "text" /\ cl.detected # "text") => cl.resolved # "text"

C8_Witness ==
    /\ cl.hint = "text"
    /\ cl.detected = "voice"
    /\ cl.resolved = "voice"

\* the email rule and the voice rule, as the specification words them
EmailRule(content) ==
    LET low == Lower(content)
    IN  \/ (Len(low) >= 5 /\ SubSeq(low, 1, 5) = <<"f", "r", "o", "m", ":">>)
        \/ Contains(low, <<"t", "o", ":">>)
        \/ Contains(low, <<"s", "u", "b", "j", "e", "c", "t", ":">>)

VoiceRule(content) ==
    LET low == Lower(content)
    IN  \E pat \in {<<"[", "v", "o", "i", "c", "e", "]">>,
                    <<"a", "u", "d", "i", "o", ":">>,
                    <<".", "w", "a", "v">>, <<".", "m", "p", "3">>} :
           Contains(low, pat)

\* C9: classification always yields one of the three channels: email when
\* an email rule matches (also when a voice rule matches too), else voice
\* when a voice rule matches, else text.
C9_FirstMatchWins ==
    cl.detected # NoDetection
        => /\ cl.detected \in Channels
           /\ EmailRule(cl.content) => cl.detected = "email"
           /\ (~EmailRule(cl.content) /\ VoiceRule(cl.content)) => cl.detected = "voice"
           /\ (~EmailRule(cl.content) /\ ~VoiceRule(cl.content)) => cl.detected = "text"

C9_Witness ==
    /\ cl.detected = "email"
    /\ EmailRule(cl.content)
    /\ VoiceRule(cl.content)

\* C10: the Interaction process_input records has type = the caller's
\* hint and channel = the resolved channel.
C10_InteractionTypeAndChannel ==
    \A p \in Inv :
        pc[p] \in InFlight
          => /\ Last(all_interactions).type = loc[p].hint
             /\ Last(all_interactions).channel = loc[p].channel
             /\ Last(all_interactions).channel
                    = (IF loc[p].hint \in {"email", "voice"}
                       THEN loc[p].hint ELSE detect_input_type(loc[p].raw))
             /\ Last(interactions) = Last(all_interactions)

C10_Witness ==
    /\ pc[1] \in InFlight
    /\ Last(interactions).type = "text"
    /\ Last(interactions).channel = "email"

ProcessInputCalled == calls' = calls + 1 /\ returned'.op # "initialize"

\* C12: process_input initializes lazily when the orchestrator is not
\* initialized and not otherwise; an initialization that succeeds leaves the
\* orchestrator ready, one that fails raises and leaves it uninitialized,
\* and the next call initializes again and succeeds once the configuration
\* is in order.
C12_InitStateMachine ==
    [][/\ (ProcessInputCalled /\ initialized)
          => /\ initialized'
             /\ returned'.kind # "raised"
             /\ auth_calls' = auth_calls
             /\ vik_initialized' = vik_initialized
       /\ (ProcessInputCalled /\ ~initialized)
          => /\ initialized' <=> returned'.kind # "raised"
             /\ gemini_key => initialized'
             /\ returned'.kind = "raised" => n_raised' = n_raised + 1
       /\ (returned'.op = "initialize" /\ ~initialized)
          => /\ initialized' <=> returned'.kind = "value"
             /\ gemini_key => initialized']_vars

\* a call that raised in its lazy initialization, then a call that initialized
C12_Witness ==
    /\ n_raised = 1
    /\ calls = 2
    /\ initialized
    /\ pc[1] = "to_thread"
    /\ loc[1].arrival = 2
    /\ Len(all_interactions) = 1

\* C13: a call of initialize() on an orchestrator that is already
\* initialized is a no-op: it returns without raising, authenticates nothing
\* and leaves the orchestrator's and the task tracker's state as they were.
C13_InitializeIdempotent ==
    [][(initialized /\ returned'.op = "initialize")
          => /\ returned'.kind = "value"
             /\ auth_calls' = auth_calls
             /\ initialized' = initialized
             /\ vik_initialized' = vik_initialized
             /\ token' = token]_vars

\* C14: the orchestrator is ready only if every collaborator passed its
\* check at initialization: it never becomes ready while the task tracker's
\* connection test or authentication has failed.
C14_ConfigErrorFatal ==
    initialized => vik_initialized

\* s is an initial part of t
IsPrefix(s, t) == Len(s) <= Len(t) /\ s = SubSeq(t, 1, Len(s))

\* C15: within one process_input invocation every collaborator is called at
\* most once (one normalization, one extraction, one enrichment, one create
\* call with at most one login and one PUT), and after a collaborator has
\* failed hard nothing later is called: a failed transcription ends the
\* invocation before anything is recorded, a failed login before any PUT,
\* a failed PUT without a second PUT.
C15_NoRetries ==
    /\ \A p \in Inv : loc[p].auths <= 1 /\ loc[p].puts <= 1
    /\ ReturnedEnvelope
         => /\ IsPrefix(returned.stages,
                        <<"normalize", "record", "extract", "enrich", "create">>)
            /\ returned.auths <= 1
            /\ returned.puts <= 1
            /\ returned.env.success
                 => Len(returned.stages) = 5 /\ returned.puts = 1
            /\ (~returned.env.success
                  /\ returned.env.error = "Audio file not found")
                 => /\ returned.stages = <<"normalize">>
                    /\ returned.appended = 0
                    /\ returned.auths = 0 /\ returned.puts = 0
            /\ (~returned.env.success
                  /\ returned.env.error = "Not authenticated with Vikunja")
                 => returned.auths = 1 /\ returned.puts = 0
            /\ (~returned.env.success /\ returned.env.error = "Vikunja error")
                 => returned.puts = 1

C15_Witness ==
    /\ ReturnedFailure
    /\ returned.env.error = "Vikunja error"
    /\ returned.auths = 1
    /\ returned.puts = 1
    /\ Len(returned.stages) = 5

\* s is a final part of t
IsSuffix(s, t) == Len(s) <= Len(t) /\ s = SubSeq(t, Len(t) - Len(s) + 1, Len(t))

\* a record add_interaction builds
WellFormedInteraction(i) ==
    /\ DOMAIN i = {"type", "content", "timestamp", "channel", "task_created"}
    /\ i.type \in Hints
    /\ i.channel \in Channels
    /\ i.timestamp \in 0..clock
    /\ i.task_created = FALSE

\* the envelopes process_input can return for an input, by the input and
\* this invocation's collaborators' answers alone
EnvelopeFor(raw, hint, created, failed, error) ==
    IF failed
    THEN {[success |-> FALSE, error |-> error, source |-> hint]}
    ELSE {SuccessEnvelope(created,
                          enrich_task(extract_task_structure(
                              detect_and_process(raw, hint, "ok").text, xo), eo),
                          resolve_channel(raw, hint), hint) :
            xo \in ExtractOutcomes, eo \in EnrichOutcomes}

\* C16: a failed invocation leaves the orchestrator ready and the store
\* with well-formed records only, at most one of them appended by the
\* failed invocation and none removed except by trimming, and whatever a
\* later invocation returns is determined by its own input and its own
\* collaborators' answers, not by the failure before it.
C16_FailureIsolation ==
    /\ IsSuffix(interactions, all_interactions)
    /\ \A i \in 1..Len(all_interactions) :
          WellFormedInteraction(all_interactions[i])
    /\ ReturnedFailure
         => /\ initialized
            /\ returned.appended <= 1
            /\ created_tasks = <<>>
    /\ ReturnedEnvelope
         => returned.env \in EnvelopeFor(returned.raw, returned.hint,
                                         returned.created,
                                         ~returned.env.success,
                                         IF returned.env.success THEN ""
                                         ELSE returned.env.error)

\* a success right after an invocation that failed in creation
C16_Witness ==
    /\ ReturnedSuccess
    /\ calls = 2
    /\ n_success = 1
    /\ n_raised = 0
    /\ Len(all_interactions) = 2
    /\ returned.env.task_id = PyInt(42)


\* C17: in every success envelope task_id is the id the creation
\* collaborator returned, and -1 when it returned nothing, an empty result
\* or a result without an id.
C17_TaskIdDefault ==
    ReturnedSuccess
        => returned.env.task_id
             = (IF "id" \in DOMAIN returned.created
                THEN returned.created["id"] ELSE PyInt(-1))

\* C18: with several invocations in flight the appends to the store are
\* serialized: every invocation's Interaction is in the append history, the
\* history is in the invocations' arrival order, and the store holds the
\* history less its oldest len - max_items records.
C18_SerializedAppends ==
    /\ \A p \in Inv :
          pc[p] \in InFlight
            => /\ loc[p].inter_before < Len(all_interactions)
               /\ all_interactions[loc[p].inter_before + 1].type = loc[p].hint
               /\ loc[p].appended = 1
    /\ \A p, q \in Inv :
          (pc[p] \in InFlight /\ pc[q] \in InFlight
             /\ loc[p].arrival < loc[q].arrival)
            => loc[p].inter_before < loc[q].inter_before
    /\ \A i, j \in 1..Len(all_interactions) :
          i < j => all_interactions[i].timestamp < all_interactions[j].timestamp
    /\ interactions
         = Newest(all_interactions, Min(Len(all_interactions), max_items))

\* C19: the task tracker's token is obtained on first use and re-used:
\* no create call logs in while a token is held, also when several create
\* calls run in worker threads at once.
C19_TokenReuse ==
    [][\A p \in Inv :
         (pc[p] = "t_auth" /\ pc'[p] # "t_auth") => token = "none"]_vars

\* the labels of the retained tasks
RetainedLabels ==
    {l \in {"bug", "ui", "inbox", "urgent"} :
        \E i \in 1..Len(created_tasks) :
           \E k \in 1..Len(created_tasks[i].labels) : created_tasks[i].labels[k] = l}

\* C20: get_user_patterns changes nothing in the store and its result is
\* a function of the retained created_tasks: empty when there are none,
\* otherwise total_tasks is their number, average_priority times that number
\* is the sum of their priorities (2 for the priorities 1, 2, 3),
\* common_labels is the union of their labels and preferred_source is a
\* source no other source occurs more often than.
C20_UserPatterns ==
    [][returned'.op = "get_user_patterns"
         => /\ storeVars' = storeVars
            /\ returned'.kind = "value"
            /\ created_tasks = <<>> => returned'.env = EmptyDict
            /\ created_tasks # <<>>
                 => LET r == returned'.env
                        n == Len(created_tasks)
                    IN  /\ DOMAIN r = {"average_priority", "common_labels",
                                       "preferred_source", "total_tasks"}
                        /\ r.total_tasks = n
                        /\ r.average_priority.num * n
                             = SumPriority(created_tasks) * r.average_priority.den
                        /\ r.average_priority.den > 0
                        /\ [i \in 1..n |-> created_tasks[i].priority] = <<1, 2, 3>>
                             => r.average_priority = [num |-> 2, den |-> 1]
                        /\ r.common_labels = RetainedLabels
                        /\ \E i \in 1..n : created_tasks[i].source = r.preferred_source
                        /\ \A j \in 1..n :
                             SourceCount(created_tasks, r.preferred_source)
                               >= SourceCount(created_tasks, created_tasks[j].source)]_vars

\* the patterns of three retained tasks of priorities 1, 2, 3, after an
\* older task was evicted
C20_Witness ==
    /\ returned.op = "get_user_patterns"
    /\ Len(all_tasks) = 4
    /\ Len(created_tasks) = 3
    /\ [i \in 1..3 |-> created_tasks[i].priority] = <<1, 2, 3>>
    /\ returned.env.average_priority = [num |-> 2, den |-> 1]
    /\ returned.env.total_tasks = 3
    /\ returned.env.common_labels = {"bug", "ui"}

\* C21: get_context(limit) renders the newest min(limit, number of tasks)
\* retained tasks, oldest of them first, for every limit >= 0, none for
\* limit 0; the enrichment stage reads it with limit 5.
C21_ContextNewest ==
    /\ ContextLimit = 5
    /\ returned.op = "get_context"
         => LET limit == returned.env.limit
                shown == Newest(created_tasks, Min(limit, Len(created_tasks)))
            IN  returned.env.context.lines
                  = [i \in 1..Len(shown) |-> ContextLine(shown[i])]

\* what one step may do to a collection of the store, given its history
OnlyTrimmed(before, after, hist_before, hist_after) ==
    /\ hist_after = hist_before => after = before
    /\ hist_after # hist_before
         => /\ Len(hist_after) = Len(hist_before) + 1
            /\ after # <<>>
            /\ Last(after) = Last(hist_after)
            /\ IsSuffix(after, Append(before, Last(hist_after)))
            /\ Len(after) < Len(before) + 1 => Len(before) + 1 > max_items

DefaultTask(text) ==
    [title |-> SubSeq(text, 1, Min(Len(text), 50)), description |-> text,
     priority |-> 1, due_date |-> "null", labels |-> <<"inbox">>]

\* C23: a failure inside the extractor or the enricher does not fail the
\* invocation: with a failed extraction the pipeline goes on with the
\* default record, with a failed enrichment with the task as extracted, the
\* task-creation collaborator is called all the same, and a failure
\* envelope, if one follows, carries the creation's error.
C23_DegradedNonFatal ==
    /\ \A p \in Inv :
          pc[p] \in InFlight
            => LET text == all_interactions[loc[p].inter_before + 1].content
               IN  /\ loc[p].xo = "fail"
                        => loc[p].task = enrich_task(DefaultTask(text), loc[p].eo)
                   /\ loc[p].eo = "fail"
                        => loc[p].task = extract_task_structure(text, loc[p].xo)
                   /\ (loc[p].xo = "fail" /\ loc[p].eo = "fail")
                        => loc[p].task = DefaultTask(text)
    /\ (ReturnedEnvelope /\ (returned.xo = "fail" \/ returned.eo = "fail"))
         => /\ Len(returned.stages) = 5
            /\ returned.auths + returned.puts >= 1
            /\ ~returned.env.success
                 => returned.env.error
                      \in {"Not authenticated with Vikunja", "Vikunja error"}
            /\ returned.env.success
                 => returned.env.title = returned.task.title

\* a success whose extraction and enrichment both failed
C23_Witness ==
    /\ ReturnedSuccess
    /\ returned.xo = "fail"
    /\ returned.eo = "fail"
    /\ returned.puts = 1
    /\ returned.env.title = <<"h", "i">>
    /\ returned.env.labels = <<"inbox">>

TaskFields == {"title", "description", "priority", "due_date", "labels"}

\* the default of a field the extraction answer lacks
FieldDefault(f, text) ==
    CASE f = "title" -> SubSeq(text, 1, Min(Len(text), 50))
      [] f = "description" -> text
      [] f = "priority" -> 1
      [] f = "due_date" -> "null"
      [] OTHER -> <<>>

\* what the extraction collaborator handed back: the model's answer when it
\* could be used, its own default record otherwise
Extracted(text, xo) ==
    IF gemini_key /\ xo # "fail" /\ "title" \in DOMAIN ExtractAnswer(xo)
    THEN ExtractAnswer(xo) ELSE DefaultTask(text)

\* C24: after extraction each of title, description, priority, due_date and
\* labels is present, with the collaborator's value when it gave one and the
\* default otherwise; after enrichment each key holds the enrichment
\* answer's value when the answer has the key and the value from before
\* otherwise, and a failed enrichment leaves the task as it was.
C24_TaskAssembly ==
    /\ asm.stage \in {"extracted", "enriched"}
         => LET base == Extracted(asm.text, asm.xo)
            IN  /\ DOMAIN asm.task = DOMAIN base \cup TaskFields
                /\ \A f \in DOMAIN asm.task :
                      asm.task[f] = (IF f \in DOMAIN base THEN base[f]
                                     ELSE FieldDefault(f, asm.text))
    /\ asm.stage = "enriched"
         => IF ~gemini_key \/ asm.eo = "fail"
            THEN asm.enriched = asm.task
            ELSE LET answer == EnrichAnswer(asm.eo)
                 IN  /\ DOMAIN asm.enriched = DOMAIN asm.task \cup DOMAIN answer
                     /\ \A f \in DOMAIN asm.enriched :
                           asm.enriched[f] = (IF f \in DOMAIN answer
                                              THEN answer[f] ELSE asm.task[f])

\* a long text, an answer with title and labels only, an enrichment that
\* renames the task
C24_Witness ==
    /\ asm.stage = "enriched"
    /\ gemini_key
    /\ asm.text = LongText
    /\ asm.xo = "title_labels"
    /\ asm.eo = "retitle"
    /\ asm.task.title = <<"Fix login bug">>
    /\ asm.task.description = LongText
    /\ asm.task.labels = <<"bug">>
    /\ asm.enriched.title = <<"Fix login">>
    /\ asm.enriched.priority = 1
    /\ asm.enriched.labels = <<"bug">>

\* C25: an invocation appends one Interaction exactly when classification
\* and normalization completed, in the step that completes them and before
\* anything else of the invocation; an invocation whose normalization
\* raises returns the failure envelope and leaves the store as it was; no
\* later step of an invocation touches the store.
C25_OneInteractionPerInvocation ==
    [][/\ (ProcessInputCalled /\ pc'[1] = "to_thread")
          => /\ Len(all_interactions') = Len(all_interactions) + 1
             /\ all_interactions'
                  = Append(all_interactions, Last(all_interactions'))
             /\ Last(all_interactions').type = loc'[1].hint
             /\ Last(all_interactions').content
                  = detect_and_process(loc'[1].raw, loc'[1].hint, "ok").text
             /\ loc'[1].appended = 1
             /\ <<created_tasks, all_tasks>>' = <<created_tasks, all_tasks>>
       /\ (ProcessInputCalled /\ pc'[1] # "to_thread")
          => /\ <<interactions, created_tasks, all_interactions, all_tasks>>'
                  = <<interactions, created_tasks, all_interactions, all_tasks>>
             /\ returned'.appended = 0
             /\ returned'.kind = "value"
                  => /\ returned'.stages = <<"normalize">>
                     /\ returned'.env = [success |-> FALSE,
                                         error |-> "Audio file not found",
                                         source |-> returned'.hint]
       /\ ~ProcessInputCalled
          => /\ <<interactions, created_tasks, all_interactions, all_tasks>>'
                  = <<interactions, created_tasks, all_interactions, all_tasks>>
             /\ returned'.op = "process_input" => returned'.appended = 1]_vars

\* a transcription that failed after an earlier invocation had recorded
C25_Witness ==
    /\ ReturnedFailure
    /\ returned.env.error = "Audio file not found"
    /\ returned.appended = 0
    /\ calls = 2
    /\ Len(all_interactions) = 1
    /\ interactions = all_interactions

=============================================================================
